---------------------------- MODULE Spec2Model ----------------------------
(***************************************************************************)
(* EduChat: the PDF chaptering / chunking / indexing pipeline of           *)
(* src/pages/2_📖_Book_Chat.py.                                            *)
(*                                                                         *)
(* A text is a sequence of one-character strings.  SpecChunker runs        *)
(* split_text_into_chunks one loop iteration per step over bounded texts   *)
(* and budgets; Spec runs the sidebar upload block (chapter resolution,    *)
(* then the indexing loop) over bounded documents.                         *)
(***************************************************************************)
EXTENDS Integers, Sequences, FiniteSets, TLC

VARIABLES
    \* ---- split_text_into_chunks, one run ----
    text,            \* the argument text
    chunk_size,      \* the argument chunk_size
    paragraphs,      \* text.split('\n\n')
    chunks,          \* the list being returned
    current_chunk,   \* paragraphs of the chunk under construction
    current_length,  \* words in current_chunk
    para_i,          \* 1-based position of the for loop in paragraphs
    cstate,          \* "idle", "start", "loop", "done"
    \* ---- the sidebar upload block, one script run ----
    doc,             \* the uploaded PDF
    pc,              \* "idle", "uploaded", "indexing", "ready", "no_chapters", "failed"
    chapters,        \* the list returned by extract_chapters_from_pdf
    chap_i,          \* 1-based position of `for chapter in chapters`
    collection,      \* entries of the collection textbook_<md5 of the file>
    adds,            \* the chroma_collection.add calls made, in order
    warning          \* text passed to st.warning, "" when none

cvars == <<text, chunk_size, paragraphs, chunks, current_chunk, current_length, para_i, cstate>>

pvars == <<doc, pc, chapters, chap_i, collection, adds, warning>>

VARIABLES
    \* ---- the two PDF-chat variants applied to one document ----
    v_none,          \* TRUE: extract_text() gives None for a page without text; FALSE: ''
    v_pc,            \* "idle", "start", "chapters", "done"
    v_k,             \* 1-based index of the chapter whose text is extracted
    v_chapters,      \* result of extract_chapters_from_pdf in 2_Book_Chat.py
    v_chapters2,     \* result of extract_chapters_from_pdf in app2.py
    v_text,          \* result of extract_chapter_text in 2_Book_Chat.py, last call
    v_text2          \* result of extract_chapter_text in app2.py, last call

vvars == <<v_none, v_pc, v_k, v_chapters, v_chapters2, v_text, v_text2>>

VARIABLES
    \* ---- generate_answer, one call after another on one collection ----
    a_coll,          \* entries of the collection passed in
    a_pc,            \* "idle", "start", "returned"
    a_query,         \* outcome of chroma_collection.query
    a_context,       \* the list `context` of formatted blocks
    a_llm,           \* outcome of openai.chat.completions.create
    a_result         \* what the call did: a returned string, or an exception

avars == <<a_coll, a_pc, a_query, a_context, a_llm, a_result>>

VARIABLES
    \* ---- one browser session: the script is run again on every interaction ----
    s_raises,        \* store version: add raises on an id it holds (TRUE) or skips it
    s_store,         \* the persistent store: collection name -> entries, or NoCollection
    s_file,          \* uploaded_file: index of the document, 0 when none
    s_question,      \* user_question is non-empty (kept by its widget key)
    s_button,        \* generate_button in the current run
    s_selected,      \* position of the label the user chose in the selectbox
    s_chapter_data,  \* st.session_state.chapter_data
    s_pc,            \* "idle", "sidebar", "indexing", "main", "display"
    s_chapters,      \* chapters, in the current run
    s_i,             \* 1-based position of the indexing loop
    s_runs,          \* script runs started
    s_run            \* what the current or last run did

svars == <<s_raises, s_store, s_file, s_question, s_button, s_selected,
           s_chapter_data, s_pc, s_chapters, s_i, s_runs, s_run>>

\* the state of every machine but the chunker and the upload block
VARIABLES
    \* ---- two browser sessions that upload the same bytes ----
    t_raises,        \* store version: add raises on an id it holds (TRUE) or skips it
    t_store,         \* the persistent store shared by the sessions
    t_pc,            \* per session: "uploaded", "indexing", "done", "failed"
    t_chapters,      \* per session: the chapters its run resolved
    t_i,             \* per session: index of the next chapter to add
    t_seen,          \* the last query: its hits, and whether a session was indexing
    t_queries        \* number of queries made

tvars == <<t_raises, t_store, t_pc, t_chapters, t_i, t_seen, t_queries>>

nvars == <<vvars, avars, svars, tvars>>

vars == <<cvars, pvars, nvars>>

\* no result yet
NoResult == [raised |-> FALSE, value |-> <<>>]

VariantsIdle ==
    /\ v_none = FALSE
    /\ v_pc = "idle"
    /\ v_k = 0
    /\ v_chapters = NoResult
    /\ v_chapters2 = NoResult
    /\ v_text = NoResult
    /\ v_text2 = NoResult

\* an external call not made
NotCalled == [called |-> FALSE, failed |-> FALSE, value |-> <<>>]

AnswerIdle ==
    /\ a_coll = <<>>
    /\ a_pc = "idle"
    /\ a_query = NotCalled
    /\ a_context = <<>>
    /\ a_llm = NotCalled
    /\ a_result = NoResult

NoCollection == "no collection"

\* st.session_state without the key chapter_data, and with chapter_data = {}
AbsentData == [kind |-> "absent"]
EmptyData == [kind |-> "empty"]

\* what a run did: exception (an exception escaped the script), selectbox and
\* question_input (the widgets were rendered), indexed (the indexing loop
\* finished), skipped (an add call met an id already stored), used and chosen
\* (chapter extracted for the guide, chapter the user selected; 0: no guide),
\* qa (result of the question answering section)
FreshRun == [exception |-> FALSE, selectbox |-> FALSE, question_input |-> FALSE,
             indexed |-> FALSE, skipped |-> FALSE, used |-> 0, chosen |-> 0,
             qa |-> "none"]

SessionIdle ==
    /\ s_raises = FALSE
    /\ s_store = <<>>
    /\ s_file = 0
    /\ s_question = FALSE
    /\ s_button = FALSE
    /\ s_selected = 0
    /\ s_chapter_data = AbsentData
    /\ s_pc = "off"
    /\ s_chapters = <<>>
    /\ s_i = 0
    /\ s_runs = 0
    /\ s_run = FreshRun

NoQuery == [asked |-> FALSE, hits |-> <<>>, indexing |-> FALSE]

TwoSessionsIdle ==
    /\ t_raises = FALSE
    /\ t_store = <<>>
    /\ t_pc = <<>>
    /\ t_chapters = <<>>
    /\ t_i = <<>>
    /\ t_seen = NoQuery
    /\ t_queries = 0

OthersIdle == VariantsIdle /\ AnswerIdle /\ SessionIdle /\ TwoSessionsIdle

\* the upload block is not running; doc is left to the machine that uses it
PipelineIdle ==
    /\ pc = "idle"
    /\ chapters = <<>>
    /\ chap_i = 0
    /\ collection = <<>>
    /\ adds = <<>>
    /\ warning = ""

ChunkerIdle ==
    /\ text = <<>>
    /\ chunk_size = 0
    /\ paragraphs = <<>>
    /\ chunks = <<>>
    /\ current_chunk = <<>>
    /\ current_length = 0
    /\ para_i = 0
    /\ cstate = "idle"

----------------------------------------------------------------------------
(* Bounds *)

MaxTextLen == 6     \* characters in an enumerated text
MaxBudget == 2      \* largest enumerated chunk_size
MaxPages == 2       \* pages of an enumerated document
MaxOutline == 2     \* top-level outline items of an enumerated document
MaxTocLines == 2    \* lines of an enumerated table of contents matching toc_pattern
MaxEntries == 6     \* entries of an enumerated collection handed to generate_answer
MaxRuns == 4
MaxQueries == 2        \* script runs of one session

(* Program constants *)

DefaultChunkSize == 1000
TocScanPages == 10
TopK == 5

----------------------------------------------------------------------------
(* Characters and strings *)

NL == "\n"
SP == " "
Chars == {"a", SP, NL}

IsSpace(c) == c \in {SP, NL}

\* len(para.split()): the number of maximal runs of non-whitespace
WordCount(s) ==
    Cardinality({i \in 1..Len(s) : ~IsSpace(s[i]) /\ (i = 1 \/ IsSpace(s[i-1]))})

\* positions >= p where the separator '\n\n' occurs
SepPositions(s, p) == {i \in p..(Len(s) - 1) : s[i] = NL /\ s[i+1] = NL}

RECURSIVE SplitFrom(_, _)
SplitFrom(s, p) ==
    LET S == SepPositions(s, p) IN
    IF S = {} THEN <<SubSeq(s, p, Len(s))>>
    ELSE LET i == CHOOSE x \in S : \A y \in S : x <= y
         IN <<SubSeq(s, p, i - 1)>> \o SplitFrom(s, i + 2)

\* text.split('\n\n'): leftmost non-overlapping separators, never an empty list
SplitParagraphs(s) == SplitFrom(s, 1)

RECURSIVE JoinParagraphs(_)
\* '\n\n'.join(ps)
JoinParagraphs(ps) ==
    IF ps = <<>> THEN <<>>
    ELSE IF Len(ps) = 1 THEN ps[1]
    ELSE ps[1] \o <<NL, NL>> \o JoinParagraphs(Tail(ps))

----------------------------------------------------------------------------
(* split_text_into_chunks *)

LoopStart == [chunks |-> <<>>, current_chunk |-> <<>>, current_length |-> 0]

\* a mutated loop body: seals when the sum reaches the budget
LoopBodySealsAtBudget(st, para, size) ==
    LET para_length == WordCount(para) IN
    IF st.current_length + para_length >= size
    THEN [chunks |-> Append(st.chunks, JoinParagraphs(st.current_chunk)),
          current_chunk |-> <<para>>,
          current_length |-> para_length]
    ELSE [chunks |-> st.chunks,
          current_chunk |-> Append(st.current_chunk, para),
          current_length |-> st.current_length + para_length]

\* a mutated loop body: the sealed chunk is lost
LoopBodyDropsSealed(st, para, size) ==
    LET para_length == WordCount(para) IN
    IF st.current_length + para_length > size
    THEN [chunks |-> st.chunks,
          current_chunk |-> <<para>>,
          current_length |-> para_length]
    ELSE [chunks |-> st.chunks,
          current_chunk |-> Append(st.current_chunk, para),
          current_length |-> st.current_length + para_length]

\* a mutated loop body: the budget test ignores the incoming paragraph
LoopBodyTestsBeforeAdding(st, para, size) ==
    LET para_length == WordCount(para) IN
    IF st.current_length > size
    THEN [chunks |-> Append(st.chunks, JoinParagraphs(st.current_chunk)),
          current_chunk |-> <<para>>,
          current_length |-> para_length]
    ELSE [chunks |-> st.chunks,
          current_chunk |-> Append(st.current_chunk, para),
          current_length |-> st.current_length + para_length]

\* one iteration of `for para in paragraphs`
LoopBody(st, para, size) ==
    LET para_length == WordCount(para) IN
    IF st.current_length + para_length > size
    THEN [chunks |-> Append(st.chunks, JoinParagraphs(st.current_chunk)),
          current_chunk |-> <<para>>,
          current_length |-> para_length]
    ELSE [chunks |-> st.chunks,
          current_chunk |-> Append(st.current_chunk, para),
          current_length |-> st.current_length + para_length]

\* a mutated epilogue: the last accumulation is never flushed
FlushNever(st) == st.chunks

\* `if current_chunk: chunks.append(...)` and `return chunks`
Flush(st) ==
    IF st.current_chunk # <<>>
    THEN Append(st.chunks, JoinParagraphs(st.current_chunk))
    ELSE st.chunks

RECURSIVE RunLoop(_, _, _, _)
RunLoop(st, ps, i, size) ==
    IF i > Len(ps) THEN st ELSE RunLoop(LoopBody(st, ps[i], size), ps, i + 1, size)

\* the function as a whole
split_text_into_chunks(t, size) ==
    Flush(RunLoop(LoopStart, SplitParagraphs(t), 1, size))

----------------------------------------------------------------------------
(* Documents *)

SeqsUpTo(S, k) == UNION {[1..m -> S] : m \in 0..k}

Titles == {"Intro", "Methods"}

\* the '/Title' of an outline item that has none
NoTitle == "<no /Title>"

\* what page.extract_text() can return; <<>> stands for None or ''
PageTexts == {<<>>, <<"a">>}

\* a top-level outline item: a destination dict, with or without '/Title',
\* or a nested list of children
OutlineItems(n) ==
    {[kind |-> "list"]} \cup
    [kind : {"dict"}, title : Titles \cup {NoTitle}, page : 0..(n - 1)]

\* a match of toc_pattern: match[1] and match[2], the printed page number
TocLines(n) == [title : Titles, number : 0..(n + 1)]

NoDoc == [pages |-> <<>>, outline |-> <<>>, toc_page |-> 0, toc_lines |-> <<>>]

HasDict(outline) == \E k \in 1..Len(outline) : outline[k].kind = "dict"

\* Documents up to the bounds.  toc_page is the page whose text contains
\* "table of contents" (0: none) and toc_lines the matches of toc_pattern in
\* it.  The TOC is only read when the outline gives no chapter, so documents
\* whose outline gives chapters are enumerated without one.
BoundedDocs ==
    UNION {
        {[pages |-> ps, outline |-> o, toc_page |-> 0, toc_lines |-> <<>>] :
            ps \in [1..n -> PageTexts],
            o \in {x \in SeqsUpTo(OutlineItems(n), MaxOutline) : HasDict(x)}}
        \cup
        {d \in [pages : [1..n -> PageTexts],
                outline : SeqsUpTo({[kind |-> "list"]}, MaxOutline),
                toc_page : 0..n,
                toc_lines : SeqsUpTo(TocLines(n), MaxTocLines)] :
            /\ d.toc_page > 0 => d.pages[d.toc_page] # <<>>
            /\ d.toc_page = 0 => d.toc_lines = <<>>}
        : n \in 1..MaxPages}

\* outline [("Intro", page 0), ("Methods", page 10)], 20 pages
ScenarioDoc ==
    [pages |-> [i \in 1..20 |-> <<"a">>],
     outline |-> <<[kind |-> "dict", title |-> "Intro", page |-> 0],
                   [kind |-> "dict", title |-> "Methods", page |-> 10]>>,
     toc_page |-> 0, toc_lines |-> <<>>]

\* no outline, and the table of contents on the eleventh page
LateTocDoc ==
    [pages |-> [i \in 1..11 |-> <<"a">>],
     outline |-> <<>>,
     toc_page |-> 11,
     toc_lines |-> <<[title |-> "Intro", number |-> 1]>>]

\* 1001 words in one paragraph
Para1001 == [i \in 1..2001 |-> IF i % 2 = 1 THEN "a" ELSE SP]

\* one chapter whose single page holds a paragraph above the default budget
BigParaDoc ==
    [pages |-> <<Para1001>>,
     outline |-> <<[kind |-> "dict", title |-> "Intro", page |-> 0]>>,
     toc_page |-> 0, toc_lines |-> <<>>]

Docs == BoundedDocs \cup {ScenarioDoc, LateTocDoc, BigParaDoc}

\* len(pdf.pages)
PageCount(d) == Len(d.pages)

----------------------------------------------------------------------------
(* extract_chapters_from_pdf *)

\* the drafts appended by `for item in pdf.outline`
OutlineDrafts(d) ==
    LET dicts == SelectSeq(d.outline, LAMBDA item : item.kind = "dict")
    IN [k \in 1..Len(dicts) |->
          [title |-> IF dicts[k].title # NoTitle THEN dicts[k].title ELSE "Untitled",
           start_page |-> dicts[k].page,
           end_page |-> -1]]

\* a mutated end-page pass: the last chapter ends on the last page index
OutlineChaptersLastShort(d) ==
    LET dr == OutlineDrafts(d) IN
    [i \in 1..Len(dr) |->
        [dr[i] EXCEPT !.end_page =
            IF i < Len(dr) THEN dr[i + 1].start_page ELSE PageCount(d) - 1]]

\* the outline path: drafts with `end_page` filled in
OutlineChapters(d) ==
    LET dr == OutlineDrafts(d) IN
    [i \in 1..Len(dr) |->
        [dr[i] EXCEPT !.end_page =
            IF i < Len(dr) THEN dr[i + 1].start_page ELSE PageCount(d)]]

\* toc_text is non-empty only when one of pdf.pages[:10] has a text containing
\* "table of contents"; re.findall then yields the page's matches in order
TocMatches(d) ==
    IF d.toc_page \in 1..TocScanPages /\ d.toc_page <= PageCount(d)
       /\ d.pages[d.toc_page] # <<>>
    THEN d.toc_lines
    ELSE <<>>

\* the TOC path: one chapter per match, 1-based page numbers made 0-based
TocChapters(d) ==
    LET m == TocMatches(d) IN
    [i \in 1..Len(m) |->
        [title |-> m[i].title,
         start_page |-> m[i].number - 1,
         end_page |-> IF i < Len(m) THEN m[i + 1].number - 1 ELSE PageCount(d)]]

extract_chapters_from_pdf(d) ==
    IF Len(d.outline) > 0 /\ OutlineChapters(d) # <<>>
    THEN OutlineChapters(d)
    ELSE TocChapters(d)

----------------------------------------------------------------------------
(* extract_chapter_text *)

\* pdf.pages[page_num]: a Python list index, negative indices count from the end
PageAt(d, page_num) ==
    IF page_num >= 0 THEN d.pages[page_num + 1] ELSE d.pages[PageCount(d) + page_num + 1]

RECURSIVE TextFrom(_, _, _)
\* `for page_num in range(start_page, end_page)`
TextFrom(d, page_num, end_page) ==
    IF page_num >= end_page THEN <<>>
    ELSE (IF page_num < PageCount(d) /\ PageAt(d, page_num) # <<>>
          THEN PageAt(d, page_num) \o <<NL, NL>>
          ELSE <<>>) \o TextFrom(d, page_num + 1, end_page)

extract_chapter_text(d, start_page, end_page) == TextFrom(d, start_page, end_page)

----------------------------------------------------------------------------
(* The sidebar upload block *)

\* f"{chapter['title']}_chunk_{i}", i from 0
ChunkId(title, i) == <<title, "_chunk_", i>>

\* the arguments of chroma_collection.add for one chapter
AddCall(d, chapter) ==
    LET cs == split_text_into_chunks(
                  extract_chapter_text(d, chapter.start_page, chapter.end_page),
                  DefaultChunkSize)
    IN [documents |-> cs,
        ids |-> [i \in 1..Len(cs) |-> ChunkId(chapter.title, i - 1)],
        metadatas |-> [i \in 1..Len(cs) |->
                          [chapter |-> chapter.title,
                           start_page |-> chapter.start_page + 1,
                           end_page |-> chapter.end_page]]]

StoredIds(coll) == {coll[k].id : k \in 1..Len(coll)}

RECURSIVE AddEntriesKeepsDuplicates(_, _, _)
\* a mutated add: an id already stored is stored again
AddEntriesKeepsDuplicates(coll, call, i) ==
    IF i > Len(call.ids) THEN coll
    ELSE AddEntriesKeepsDuplicates(
            Append(coll, [id |-> call.ids[i],
                          document |-> call.documents[i],
                          metadata |-> call.metadatas[i]]),
            call, i + 1)

RECURSIVE AddEntries(_, _, _)
\* Collection.add: entries are stored in order; an id already stored is not
\* stored again
AddEntries(coll, call, i) ==
    IF i > Len(call.ids) THEN coll
    ELSE AddEntries(
            IF call.ids[i] \in StoredIds(coll) THEN coll
            ELSE Append(coll, [id |-> call.ids[i],
                               document |-> call.documents[i],
                               metadata |-> call.metadatas[i]]),
            call, i + 1)

Init ==
    /\ doc \in Docs
    /\ pc = "uploaded"
    /\ chapters = <<>>
    /\ chap_i = 0
    /\ collection = <<>>
    /\ adds = <<>>
    /\ warning = ""
    /\ text = <<>>
    /\ chunk_size = 0
    /\ paragraphs = <<>>
    /\ chunks = <<>>
    /\ current_chunk = <<>>
    /\ current_length = 0
    /\ para_i = 0
    /\ cstate = "idle"
    /\ OthersIdle

\* chapters = extract_chapters_from_pdf(tmp_path) and the branch on it
ResolveChapters ==
    /\ pc = "uploaded"
    /\ chapters' = extract_chapters_from_pdf(doc)
    /\ IF chapters' # <<>>
       THEN /\ pc' = "indexing"
            /\ chap_i' = 1
            /\ warning' = warning
       ELSE /\ pc' = "no_chapters"
            /\ chap_i' = chap_i
            /\ warning' = "No chapters detected in PDF. Using full document."
    /\ UNCHANGED <<doc, collection, adds, cvars, nvars>>

\* one iteration of `for chapter in chapters`.  The store either skips an id
\* it already holds or raises on it, depending on its version.
IndexChapter ==
    /\ pc = "indexing"
    /\ chap_i <= Len(chapters)
    /\ LET call == AddCall(doc, chapters[chap_i]) IN
       /\ adds' = Append(adds, call)
       /\ \/ /\ collection' = AddEntries(collection, call, 1)
             /\ chap_i' = chap_i + 1
             /\ pc' = pc
          \/ /\ \E i \in 1..Len(call.ids) : call.ids[i] \in StoredIds(collection)
             /\ pc' = "failed"
             /\ UNCHANGED <<collection, chap_i>>
    /\ UNCHANGED <<doc, chapters, warning, cvars, nvars>>

\* the loop is over: the chapter selectbox is shown
IndexingDone ==
    /\ pc = "indexing"
    /\ chap_i > Len(chapters)
    /\ pc' = "ready"
    /\ UNCHANGED <<doc, chapters, chap_i, collection, adds, warning, cvars, nvars>>

Next == ResolveChapters \/ IndexChapter \/ IndexingDone

Spec == Init /\ [][Next]_vars

----------------------------------------------------------------------------
(* Claims about chapter resolution and the indexing loop, under Spec *)

Resolved == pc \in {"indexing", "ready", "no_chapters", "failed"}

\* C1: in every chapter list returned by extract_chapters_from_pdf, from the
\* outline or from the TOC, each chapter but the last ends where the next one
\* starts and the last ends at the page count; the outline
\* [("Intro", 0), ("Methods", 10)] over 20 pages gives
\* [{Intro,0,10}, {Methods,10,20}].
C1_EndPagesChain ==
    Resolved =>
        /\ \A i \in 1..(Len(chapters) - 1) :
              chapters[i].end_page = chapters[i + 1].start_page
        /\ Len(chapters) >= 1 => chapters[Len(chapters)].end_page = PageCount(doc)
        /\ doc = ScenarioDoc =>
              chapters = <<[title |-> "Intro", start_page |-> 0, end_page |-> 10],
                           [title |-> "Methods", start_page |-> 10, end_page |-> 20]>>

\* C1 witness: a resolved list of two chapters parsed from a table of contents,
\* the first ending before the end of the document.
C1_Witness ==
    /\ Resolved
    /\ doc.toc_page > 0
    /\ Len(chapters) = 2
    /\ chapters[1].end_page = chapters[2].start_page
    /\ chapters[1].end_page < PageCount(doc)

\* C2: every chapter returned by extract_chapters_from_pdf has
\* start_page < end_page, whatever the outline or the parsed TOC.
C2_StartBeforeEnd ==
    Resolved =>
        \A i \in 1..Len(chapters) : chapters[i].start_page < chapters[i].end_page

\* C3: when neither the outline nor the TOC yields a chapter, the upload block
\* indexes the whole document as one chapter spanning pages 0..total_pages.
C3_WholeDocumentFallback ==
    (Resolved /\ extract_chapters_from_pdf(doc) = <<>>) =>
        /\ Len(adds) = 1
        /\ adds[1].documents =
              split_text_into_chunks(extract_chapter_text(doc, 0, PageCount(doc)),
                                     DefaultChunkSize)
        /\ \A i \in 1..Len(adds[1].metadatas) :
              /\ adds[1].metadatas[i].start_page = 1
              /\ adds[1].metadatas[i].end_page = PageCount(doc)

\* C7: a chapter whose extracted text is empty yields zero chunks, and its
\* iteration of the indexing loop adds no entry to the collection.
C7_EmptyChapterAddsNothing ==
    \A k \in 1..Len(adds) :
        extract_chapter_text(doc, chapters[k].start_page, chapters[k].end_page) = <<>> =>
            /\ adds[k].documents = <<>>
            /\ adds[k].ids = <<>>

\* C10: within one indexing run the ids passed to the collection are pairwise
\* distinct across all chapters of the document.
C10_IdsDistinct ==
    \A j, k \in 1..Len(adds) :
        \A i \in 1..Len(adds[j].ids) :
            \A l \in 1..Len(adds[k].ids) :
                (j # k \/ i # l) => adds[j].ids[i] # adds[k].ids[l]

----------------------------------------------------------------------------
(* The two variants: 2_Book_Chat.py and app2.py *)

Returned(v) == [raised |-> FALSE, value |-> v]
Raised == [raised |-> TRUE, value |-> <<>>]

\* app2.py, the scan of pdf.pages[:10]: `"table of contents" in text.lower()`
\* without the `text and` guard raises when extract_text() gave None
App2TocScanRaises(d, none) ==
    none /\ \E p \in 1..PageCount(d) : p <= TocScanPages /\ d.pages[p] = <<>>

\* app2.py extract_chapters_from_pdf: the outline path and the end-page passes
\* are those of 2_Book_Chat.py
App2_extract_chapters_from_pdf(d, none) ==
    IF Len(d.outline) > 0 /\ OutlineChapters(d) # <<>>
    THEN Returned(OutlineChapters(d))
    ELSE IF App2TocScanRaises(d, none) THEN Raised
    ELSE Returned(TocChapters(d))

RECURSIVE App2TextFrom(_, _, _, _)
\* app2.py: `text += pdf.pages[page_num].extract_text() + "\n\n"`, no test of
\* the page text; None + str raises
App2TextFrom(d, none, page_num, end_page) ==
    IF page_num >= end_page THEN Returned(<<>>)
    ELSE IF page_num < PageCount(d)
         THEN IF PageAt(d, page_num) = <<>> /\ none THEN Raised
              ELSE LET rest == App2TextFrom(d, none, page_num + 1, end_page)
                   IN IF rest.raised THEN Raised
                      ELSE Returned(PageAt(d, page_num) \o <<NL, NL>> \o rest.value)
         ELSE App2TextFrom(d, none, page_num + 1, end_page)

App2_extract_chapter_text(d, none, start_page, end_page) ==
    App2TextFrom(d, none, start_page, end_page)

InitVariants ==
    /\ doc \in Docs
    /\ v_none \in BOOLEAN
    /\ v_pc = "start"
    /\ v_k = 0
    /\ v_chapters = NoResult
    /\ v_chapters2 = NoResult
    /\ v_text = NoResult
    /\ v_text2 = NoResult
    /\ PipelineIdle
    /\ ChunkerIdle
    /\ AnswerIdle
    /\ SessionIdle
    /\ TwoSessionsIdle

\* both variants resolve the chapters of the document
VariantsResolve ==
    /\ v_pc = "start"
    /\ v_chapters' = Returned(extract_chapters_from_pdf(doc))
    /\ v_chapters2' = App2_extract_chapters_from_pdf(doc, v_none)
    /\ v_k' = 1
    /\ v_pc' = "chapters"
    /\ UNCHANGED <<v_none, v_text, v_text2, cvars, pvars, avars, svars, tvars>>

\* both variants extract the text of the next chapter's page range
VariantsExtract ==
    /\ v_pc = "chapters"
    /\ v_k <= Len(v_chapters.value)
    /\ LET ch == v_chapters.value[v_k] IN
       /\ v_text' = Returned(extract_chapter_text(doc, ch.start_page, ch.end_page))
       /\ v_text2' = App2_extract_chapter_text(doc, v_none, ch.start_page, ch.end_page)
    /\ v_k' = v_k + 1
    /\ UNCHANGED <<v_none, v_pc, v_chapters, v_chapters2, cvars, pvars, avars, svars, tvars>>

VariantsDone ==
    /\ v_pc = "chapters"
    /\ v_k > Len(v_chapters.value)
    /\ v_pc' = "done"
    /\ UNCHANGED <<v_none, v_k, v_chapters, v_chapters2, v_text, v_text2, cvars, pvars, avars, svars, tvars>>

NextVariants == VariantsResolve \/ VariantsExtract \/ VariantsDone

SpecVariants == InitVariants /\ [][NextVariants]_vars

RECURSIVE PagesText(_, _, _)
\* the texts of the pages lo..hi-1 (0-based, all inside the document), each
\* page with text followed by a blank line
PagesText(d, lo, hi) ==
    IF lo >= hi THEN <<>>
    ELSE (IF d.pages[lo + 1] # <<>> THEN d.pages[lo + 1] \o <<NL, NL>> ELSE <<>>)
         \o PagesText(d, lo + 1, hi)

Max(a, b) == IF a >= b THEN a ELSE b
Min(a, b) == IF a <= b THEN a ELSE b

\* a chapter's text has been extracted by both variants
Extracted == v_pc \in {"chapters", "done"} /\ v_k >= 2

\* C12: extract_chapter_text(start_page, end_page) is the concatenation, in
\* ascending order, of the texts of exactly the pages p with
\* start_page <= p < end_page and 0 <= p < page_count; indices outside the
\* document, a negative start_page included, contribute no text.
C12_OnlyPagesInRange ==
    Extracted =>
        LET ch == v_chapters.value[v_k - 1] IN
        /\ ~v_text.raised
        /\ v_text.value = PagesText(doc, Max(ch.start_page, 0),
                                    Min(ch.end_page, PageCount(doc)))

\* C19: for every document, the functions of app2.py return, without raising,
\* what the functions of the same name in 2_Book_Chat.py return.
C19_VariantsAgree ==
    /\ v_pc \in {"chapters", "done"} => v_chapters2 = v_chapters
    /\ Extracted => v_text2 = v_text

----------------------------------------------------------------------------
(* generate_answer *)

\* an external call that returned v, and one that raised
CallOk(v) == [called |-> TRUE, failed |-> FALSE, value |-> v]
CallFailed == [called |-> TRUE, failed |-> TRUE, value |-> <<>>]

\* results['documents'][0] zipped with results['metadatas'][0]: the store
\* returns min(n_results, count) entries in its own similarity order
QueryResults(coll, n_results) ==
    LET m == IF Len(coll) < n_results THEN Len(coll) ELSE n_results IN
    {[i \in 1..m |-> coll[f[i]]] :
        f \in {g \in [1..m -> 1..Len(coll)] :
                  \A i, j \in 1..m : i # j => g[i] # g[j]}}

\* f"Chapter: {meta['chapter']}\nPages: {meta['start_page']}-{meta['end_page']}\n
\*   Content: {doc}\n"
ContextBlock(hit) ==
    <<"Chapter: ", hit.metadata.chapter,
      "\nPages: ", hit.metadata.start_page, "-", hit.metadata.end_page,
      "\nContent: ", hit.document, "\n">>

\* a mutated context: the blocks are appended in reverse order
FormatContextReversed(hits) ==
    [i \in 1..Len(hits) |-> ContextBlock(hits[Len(hits) + 1 - i])]

\* `for doc, meta in zip(...): context.append(...)`
FormatContext(hits) == [i \in 1..Len(hits) |-> ContextBlock(hits[i])]

ErrorMessage == <<"Error generating answer: ", "str(e)">>

\* a mutated function: no except clause
generate_answer_no_except(query, llm) ==
    IF query.failed \/ llm.failed THEN Raised ELSE Returned(llm.value)

\* the try body returns the model's text; `except Exception` returns the
\* error message
generate_answer(query, llm) ==
    IF query.failed \/ llm.failed THEN Returned(ErrorMessage) ELSE Returned(llm.value)

\* entry k of an enumerated collection: chunk k-1 of a chapter
EntryK(k) ==
    [id |-> ChunkId(IF k % 2 = 1 THEN "Intro" ELSE "Methods", k - 1),
     document |-> [i \in 1..k |-> "a"],
     metadata |-> [chapter |-> IF k % 2 = 1 THEN "Intro" ELSE "Methods",
                   start_page |-> k, end_page |-> k + 1]]

InitAnswer ==
    /\ a_coll \in {[k \in 1..n |-> EntryK(k)] : n \in 0..MaxEntries}
    /\ a_pc = "start"
    /\ a_query = NotCalled
    /\ a_context = <<>>
    /\ a_llm = NotCalled
    /\ a_result = NoResult
    /\ doc = NoDoc
    /\ PipelineIdle
    /\ ChunkerIdle
    /\ VariantsIdle
    /\ SessionIdle
    /\ TwoSessionsIdle

\* one call of generate_answer: the query, the context, the model call
AnswerQuestion ==
    /\ a_pc = "start"
    /\ \E q \in {CallFailed} \cup {CallOk(h) : h \in QueryResults(a_coll, TopK)} :
       \E l \in IF q.failed THEN {NotCalled} ELSE {CallFailed, CallOk(<<"answer">>)} :
          /\ a_query' = q
          /\ a_context' = IF q.failed THEN <<>> ELSE FormatContext(q.value)
          /\ a_llm' = l
          /\ a_result' = generate_answer(q, l)
    /\ a_pc' = "returned"
    /\ UNCHANGED <<a_coll, doc, cvars, pvars, vvars, svars, tvars>>

\* the answer is shown and the user enters another question
AskAgain ==
    /\ a_pc = "returned"
    /\ ~a_result.raised
    /\ a_pc' = "start"
    /\ a_query' = NotCalled
    /\ a_context' = <<>>
    /\ a_llm' = NotCalled
    /\ a_result' = NoResult
    /\ UNCHANGED <<a_coll, doc, cvars, pvars, vvars, svars, tvars>>

NextAnswer == AnswerQuestion \/ AskAgain

SpecAnswer == InitAnswer /\ [][NextAnswer]_vars

\* C13: the context holds one block per retrieved chunk, at most 5, each with
\* that hit's chapter name, page range and chunk text, in the order of the
\* ranked results of the collection query.
C13_ContextFollowsRanking ==
    (a_pc = "returned" /\ ~a_query.failed) =>
        /\ Len(a_context) = Len(a_query.value)
        /\ Len(a_context) <= TopK
        /\ \A i \in 1..Len(a_context) :
              /\ a_context[i][2] = a_query.value[i].metadata.chapter
              /\ a_context[i][4] = a_query.value[i].metadata.start_page
              /\ a_context[i][6] = a_query.value[i].metadata.end_page
              /\ a_context[i][8] = a_query.value[i].document

\* C13 witness: a collection of more than 5 entries was queried and the 5 hits
\* came back in an order other than the collection's.
C13_Witness ==
    /\ a_pc = "returned"
    /\ Len(a_coll) > TopK
    /\ Len(a_context) = TopK
    /\ a_query.value[1] = a_coll[Len(a_coll)]
    /\ a_context[1][8] = a_coll[Len(a_coll)].document

\* C14: generate_answer never raises; when the query or the model call fails
\* it returns the error message string, and a further question can be asked
\* with the collection untouched.
C14_NeverRaises ==
    /\ [](a_pc = "returned" =>
            /\ ~a_result.raised
            /\ (a_query.failed \/ a_llm.failed) => a_result.value = ErrorMessage
            /\ (~a_query.failed /\ ~a_llm.failed) => a_result.value = a_llm.value)
    /\ [][a_pc = "returned" => (a_pc' = "start" /\ a_coll' = a_coll)]_vars

\* C14 witness: the query succeeded, the model call failed, and the error
\* message was returned.
C14_Witness ==
    /\ a_pc = "returned"
    /\ a_query.called /\ ~a_query.failed
    /\ a_llm.failed
    /\ a_result = Returned(ErrorMessage)

----------------------------------------------------------------------------
(* One browser session *)

\* outline Intro -> page 0, Methods -> page 1
SDocTwoChapters ==
    [pages |-> <<<<"a">>, <<"a", SP, "a">>>>,
     outline |-> <<[kind |-> "dict", title |-> "Intro", page |-> 0],
                   [kind |-> "dict", title |-> "Methods", page |-> 1]>>,
     toc_page |-> 0, toc_lines |-> <<>>]

\* two chapters with the same title on different pages
SDocSameTitle ==
    [pages |-> <<<<"a">>, <<"a", SP, "a">>, <<"a">>>>,
     outline |-> <<[kind |-> "dict", title |-> "Intro", page |-> 0],
                   [kind |-> "dict", title |-> "Intro", page |-> 1]>>,
     toc_page |-> 0, toc_lines |-> <<>>]

\* neither an outline nor a table of contents
SDocNoChapters ==
    [pages |-> <<<<"a">>>>, outline |-> <<>>, toc_page |-> 0, toc_lines |-> <<>>]

\* the first title is a prefix of the second
SDocPrefixTitle ==
    [pages |-> <<<<"a">>, <<"a">>, <<"a", SP, "a">>>>,
     outline |-> <<[kind |-> "dict", title |-> "Intro", page |-> 0],
                   [kind |-> "dict", title |-> "Introduction", page |-> 2]>>,
     toc_page |-> 0, toc_lines |-> <<>>]

SessionDocSeq == <<SDocTwoChapters, SDocSameTitle, SDocNoChapters, SDocPrefixTitle>>

SessionDoc(k) == SessionDocSeq[k]

\* hashlib.md5(uploaded_file.getvalue()).hexdigest(): a digest that depends on
\* the bytes only and differs between the documents of the session
Md5(d) == <<"md5", CHOOSE k \in 1..Len(SessionDocSeq) : SessionDocSeq[k] = d>>

\* f"textbook_{file_hash}"
CollectionName(d) == <<"textbook_", Md5(d)>>

CollectionNames == {CollectionName(SessionDocSeq[k]) : k \in 1..Len(SessionDocSeq)}

\* the characters of a title
TitleText(t) ==
    CASE t = "Intro" -> <<"I", "n", "t", "r", "o">>
      [] t = "Introduction" -> <<"I", "n", "t", "r", "o", "d", "u", "c", "t", "i", "o", "n">>
      [] t = "Methods" -> <<"M", "e", "t", "h", "o", "d", "s">>
      [] t = "Untitled" -> <<"U", "n", "t", "i", "t", "l", "e", "d">>

RECURSIVE Digits(_)
Digits(n) ==
    IF n < 10 THEN <<(<<"0", "1", "2", "3", "4", "5", "6", "7", "8", "9">>)[n + 1]>>
    ELSE Digits(n \div 10) \o Digits(n % 10)

\* str(n) inside an f-string
Str(n) == IF n < 0 THEN <<"-">> \o Digits(0 - n) ELSE Digits(n)

\* f"{chap['title']} (pp. {chap['start_page']+1}-{chap['end_page']})"
Label(chap) ==
    TitleText(chap.title) \o <<SP, "(", "p", "p", ".", SP>> \o Str(chap.start_page + 1)
        \o <<"-">> \o Str(chap.end_page) \o <<")">>

\* selected.startswith(prefix)
StartsWith(selected, prefix) ==
    Len(prefix) <= Len(selected) /\ SubSeq(selected, 1, Len(prefix)) = prefix

\* [i for i, chap in enumerate(chapters)
\*    if selected_chapter.startswith(chap['title'])][0], 1-based here
ChapIndex(chs, selected) ==
    CHOOSE i \in 1..Len(chs) :
        /\ StartsWith(selected, TitleText(chs[i].title))
        /\ \A j \in 1..(i - 1) : ~StartsWith(selected, TitleText(chs[j].title))

\* chroma_client.get_or_create_collection(name=collection_name)
GetOrCreate(store, name) ==
    IF store[name] = NoCollection THEN [store EXCEPT ![name] = <<>>] ELSE store

HasDuplicate(coll, call) ==
    \E i \in 1..Len(call.ids) : call.ids[i] \in StoredIds(coll)

InitSession ==
    /\ s_raises \in BOOLEAN
    /\ s_store = [n \in CollectionNames |-> NoCollection]
    /\ s_file = 0
    /\ s_question = FALSE
    /\ s_button = FALSE
    /\ s_selected = 0
    /\ s_chapter_data = AbsentData
    /\ s_pc = "idle"
    /\ s_chapters = <<>>
    /\ s_i = 0
    /\ s_runs = 0
    /\ s_run = FreshRun
    /\ doc = NoDoc
    /\ PipelineIdle
    /\ ChunkerIdle
    /\ VariantsIdle
    /\ AnswerIdle
    /\ TwoSessionsIdle

\* any interaction makes Streamlit run the script again from the top
StartRun ==
    /\ s_pc = "idle"
    /\ s_runs < MaxRuns
    /\ s_pc' = "sidebar"
    /\ s_runs' = s_runs + 1
    /\ s_run' = FreshRun
    /\ s_chapters' = <<>>
    /\ s_i' = 0
    /\ UNCHANGED <<s_raises, s_store, s_chapter_data, doc, cvars, pvars, vvars, avars, tvars>>

\* the user uploads a file (also the file already uploaded)
UserUploads ==
    /\ StartRun
    /\ \E k \in 1..Len(SessionDocSeq) : s_file' = k
    /\ s_button' = FALSE
    /\ s_selected' = 0
    /\ UNCHANGED s_question

\* the user removes the uploaded file
UserRemovesFile ==
    /\ StartRun
    /\ s_file # 0
    /\ s_file' = 0
    /\ s_button' = FALSE
    /\ s_selected' = 0
    /\ UNCHANGED s_question

\* the user selects a chapter and presses Generate Chapter Guide
UserPressesGenerate ==
    /\ StartRun
    /\ s_run.selectbox
    /\ \E j \in 1..Len(s_chapters) : s_selected' = j
    /\ s_button' = TRUE
    /\ UNCHANGED <<s_file, s_question>>

\* the user enters a question
UserAsks ==
    /\ StartRun
    /\ s_run.question_input
    /\ s_question' = TRUE
    /\ s_button' = FALSE
    /\ s_selected' = 0
    /\ UNCHANGED s_file

\* the sidebar block up to the indexing loop, or its else branch
RunSidebar ==
    /\ s_pc = "sidebar"
    /\ IF s_file = 0
       THEN /\ s_pc' = "main"
            /\ UNCHANGED <<s_chapters, s_store, s_i>>
       ELSE LET chs == extract_chapters_from_pdf(SessionDoc(s_file)) IN
            /\ s_chapters' = chs
            /\ IF chs # <<>>
               THEN /\ s_store' = GetOrCreate(s_store, CollectionName(SessionDoc(s_file)))
                    /\ s_pc' = "indexing"
                    /\ s_i' = 1
               ELSE /\ s_pc' = "main"
                    /\ UNCHANGED <<s_store, s_i>>
    /\ UNCHANGED <<s_raises, s_file, s_question, s_button, s_selected, s_chapter_data,
                   s_runs, s_run, doc, cvars, pvars, vvars, avars, tvars>>

\* one iteration of the indexing loop; an exception ends the script run
RunIndexChapter ==
    /\ s_pc = "indexing"
    /\ s_i <= Len(s_chapters)
    /\ LET name == CollectionName(SessionDoc(s_file))
           call == AddCall(SessionDoc(s_file), s_chapters[s_i])
           dup == HasDuplicate(s_store[name], call)
       IN IF dup /\ s_raises
          THEN /\ s_run' = [s_run EXCEPT !.exception = TRUE]
               /\ s_pc' = "idle"
               /\ s_button' = FALSE
               /\ UNCHANGED <<s_store, s_i>>
          ELSE /\ s_store' = [s_store EXCEPT ![name] = AddEntries(s_store[name], call, 1)]
               /\ s_i' = s_i + 1
               /\ s_run' = [s_run EXCEPT !.skipped = s_run.skipped \/ dup]
               /\ UNCHANGED <<s_pc, s_button>>
    /\ UNCHANGED <<s_raises, s_file, s_question, s_selected, s_chapter_data,
                   s_chapters, s_runs, doc, cvars, pvars, vvars, avars, tvars>>

\* the loop is over: the selectbox and the button are rendered
RunIndexDone ==
    /\ s_pc = "indexing"
    /\ s_i > Len(s_chapters)
    /\ s_run' = [s_run EXCEPT !.indexed = TRUE, !.selectbox = TRUE]
    /\ s_pc' = "main"
    /\ UNCHANGED <<s_raises, s_store, s_file, s_question, s_button, s_selected,
                   s_chapter_data, s_chapters, s_i, s_runs, doc, cvars, pvars, vvars, avars, tvars>>

\* chapter_data initialisation and the chapter guide generation;
\* generate_rag_content returns (None, None) when the model call fails.
\* The field file of chapter_data is history: the upload the guide was made
\* from, which the code does not store.  used and chosen of s_run record the
\* chapter the lookup found and the one the user selected.
RunMain ==
    /\ s_pc = "main"
    /\ LET kept == IF s_file # 0 /\ s_chapter_data = AbsentData
                   THEN EmptyData ELSE s_chapter_data
       IN IF s_file # 0 /\ s_run.selectbox /\ s_button
          THEN LET chap_index == ChapIndex(s_chapters, Label(s_chapters[s_selected])) IN
               /\ s_run' = [s_run EXCEPT !.used = chap_index, !.chosen = s_selected]
               /\ \E llm_ok \in BOOLEAN :
                     s_chapter_data' =
                        IF llm_ok
                        THEN [kind |-> "data",
                              title |-> s_chapters[chap_index].title,
                              file |-> s_file]
                        ELSE kept
          ELSE /\ s_chapter_data' = kept
               /\ s_run' = s_run
    /\ s_pc' = "display"
    /\ UNCHANGED <<s_raises, s_store, s_file, s_question, s_button, s_selected,
                   s_chapters, s_i, s_runs, doc, cvars, pvars, vvars, avars, tvars>>

\* the result of the question answering section
AnswerOutcomes(file, store) ==
    IF file = 0 THEN {"exception"}
    ELSE IF store[CollectionName(SessionDoc(file))] = NoCollection THEN {"exception"}
    ELSE LET coll == store[CollectionName(SessionDoc(file))] IN
         {IF r.raised THEN "exception"
          ELSE IF r.value = ErrorMessage THEN "error_message" ELSE "answered" :
            r \in {generate_answer(CallFailed, NotCalled)} \cup
                  {generate_answer(CallOk(h), l) :
                      h \in QueryResults(coll, TopK),
                      l \in {CallFailed, CallOk(<<"answer">>)}}}

\* the tabs and the question answering section: uploaded_file.getvalue() on
\* None and get_collection of a missing collection raise outside generate_answer
RunDisplay ==
    /\ s_pc = "display"
    /\ IF s_chapter_data.kind = "data"
       THEN IF s_question
            THEN \E out \in AnswerOutcomes(s_file, s_store) :
                    s_run' = [s_run EXCEPT !.question_input = TRUE,
                                           !.qa = out,
                                           !.exception = (out = "exception")]
            ELSE s_run' = [s_run EXCEPT !.question_input = TRUE]
       ELSE s_run' = s_run
    /\ s_pc' = "idle"
    /\ s_button' = FALSE
    /\ UNCHANGED <<s_raises, s_store, s_file, s_question, s_selected, s_chapter_data,
                   s_chapters, s_i, s_runs, doc, cvars, pvars, vvars, avars, tvars>>

NextSession ==
    \/ UserUploads \/ UserRemovesFile \/ UserPressesGenerate \/ UserAsks
    \/ RunSidebar \/ RunIndexChapter \/ RunIndexDone \/ RunMain \/ RunDisplay

SpecSession == InitSession /\ [][NextSession]_vars

RECURSIVE IndexFrom(_, _, _, _, _)
IndexFrom(coll, d, chs, i, raises) ==
    IF i > Len(chs) THEN coll
    ELSE LET call == AddCall(d, chs[i]) IN
         IF raises /\ HasDuplicate(coll, call) THEN coll
         ELSE IndexFrom(AddEntries(coll, call, 1), d, chs, i + 1, raises)

\* what one indexing run of d leaves in a new collection
SingleRun(d, raises) == IndexFrom(<<>>, d, extract_chapters_from_pdf(d), 1, raises)

EntrySet(coll) == {coll[k] : k \in 1..Len(coll)}

\* C11: after any number of script runs, the collection named after a
\* document's bytes holds exactly the entries one indexing run of that
\* document produces, and no chunk id twice
C11_ReindexIdempotent ==
    s_pc = "idle" =>
        \A k \in 1..Len(SessionDocSeq) :
            LET coll == s_store[CollectionName(SessionDoc(k))] IN
            coll # NoCollection =>
                /\ EntrySet(coll) = EntrySet(SingleRun(SessionDoc(k), s_raises))
                /\ \A i, j \in 1..Len(coll) : coll[i].id = coll[j].id => i = j

\* a later run of the script has indexed the two-chapter document again
C11_Witness ==
    /\ s_pc = "idle"
    /\ s_runs >= 2
    /\ s_file = 1
    /\ s_run.indexed
    /\ s_run.skipped
    /\ Len(s_store[CollectionName(SessionDoc(1))]) = 2

NeverIndexed(file, store) ==
    file = 0 \/ store[CollectionName(SessionDoc(file))] = NoCollection

\* C15: a question asked while the current document has no indexed
\* collection (or no file is uploaded) ends in a "not indexed" signal, never
\* in an exception that escapes the question answering section
C15_NotIndexedSignal ==
    (s_pc = "idle" /\ s_run.qa # "none" /\ NeverIndexed(s_file, s_store))
        => s_run.qa = "not_indexed"

\* C16: a question is answered only in a run that has resolved and indexed
\* the uploaded document, and after a new upload nothing of the previous
\* document is left in the session: the chapter guide held in the session
\* belongs to the uploaded file
C16_FreshInstancePerUpload ==
    s_pc = "idle" =>
        /\ s_run.qa \in {"answered", "error_message"} => s_run.indexed
        /\ (s_file # 0 /\ s_chapter_data.kind = "data") => s_chapter_data.file = s_file

\* C18: the chapter whose pages are extracted and summarised after Generate
\* Chapter Guide is the chapter the user selected
C18_SelectedChapterUsed ==
    (s_pc = "idle" /\ s_run.chosen # 0) => s_run.used = s_run.chosen

----------------------------------------------------------------------------
(* Two sessions that upload the same bytes *)

Sessions == {1, 2}

SharedDocs == {SDocTwoChapters, SDocSameTitle, SDocPrefixTitle}

InitTwoSessions ==
    /\ doc \in SharedDocs
    /\ t_raises \in BOOLEAN
    /\ t_store = [n \in CollectionNames |-> NoCollection]
    /\ t_pc = [s \in Sessions |-> "uploaded"]
    /\ t_chapters = [s \in Sessions |-> <<>>]
    /\ t_i = [s \in Sessions |-> 0]
    /\ t_seen = NoQuery
    /\ t_queries = 0
    /\ PipelineIdle
    /\ ChunkerIdle
    /\ VariantsIdle
    /\ AnswerIdle
    /\ SessionIdle

\* a session's run up to the indexing loop
SessionResolves(s) ==
    /\ t_pc[s] = "uploaded"
    /\ LET chs == extract_chapters_from_pdf(doc) IN
       /\ t_chapters' = [t_chapters EXCEPT ![s] = chs]
       /\ IF chs # <<>>
          THEN /\ t_store' = GetOrCreate(t_store, CollectionName(doc))
               /\ t_pc' = [t_pc EXCEPT ![s] = "indexing"]
               /\ t_i' = [t_i EXCEPT ![s] = 1]
          ELSE /\ t_pc' = [t_pc EXCEPT ![s] = "done"]
               /\ UNCHANGED <<t_store, t_i>>
    /\ UNCHANGED <<t_raises, t_seen, t_queries, doc, cvars, pvars, vvars, avars, svars>>

\* one add call of a session's indexing loop; the store serialises the calls
SessionAdds(s) ==
    /\ t_pc[s] = "indexing"
    /\ t_i[s] <= Len(t_chapters[s])
    /\ LET name == CollectionName(doc)
           call == AddCall(doc, t_chapters[s][t_i[s]])
       IN IF t_raises /\ HasDuplicate(t_store[name], call)
          THEN /\ t_pc' = [t_pc EXCEPT ![s] = "failed"]
               /\ UNCHANGED <<t_store, t_i>>
          ELSE /\ t_store' = [t_store EXCEPT ![name] = AddEntries(t_store[name], call, 1)]
               /\ t_i' = [t_i EXCEPT ![s] = t_i[s] + 1]
               /\ UNCHANGED t_pc
    /\ UNCHANGED <<t_raises, t_chapters, t_seen, t_queries, doc, cvars, pvars, vvars,
                   avars, svars>>

\* a session's indexing loop is over
SessionIndexed(s) ==
    /\ t_pc[s] = "indexing"
    /\ t_i[s] > Len(t_chapters[s])
    /\ t_pc' = [t_pc EXCEPT ![s] = "done"]
    /\ UNCHANGED <<t_raises, t_store, t_chapters, t_i, t_seen, t_queries, doc, cvars,
                   pvars, vvars, avars, svars>>

\* collection.query of generate_answer, made in the question answering
\* section of a session whose run has passed its indexing loop
SessionQueries(s) ==
    /\ t_pc[s] = "done"
    /\ t_queries < MaxQueries
    /\ t_store[CollectionName(doc)] # NoCollection
    /\ \E hits \in QueryResults(t_store[CollectionName(doc)], TopK) :
          t_seen' = [asked |-> TRUE, hits |-> hits,
                     indexing |-> \E o \in Sessions : t_pc[o] = "indexing"]
    /\ t_queries' = t_queries + 1
    /\ UNCHANGED <<t_raises, t_store, t_pc, t_chapters, t_i, doc, cvars, pvars, vvars,
                   avars, svars>>

NextTwoSessions ==
    \E s \in Sessions :
        \/ SessionResolves(s)
        \/ SessionAdds(s)
        \/ SessionIndexed(s)
        \/ SessionQueries(s)

SpecTwoSessions == InitTwoSessions /\ [][NextTwoSessions]_vars

BothFinished == \A s \in Sessions : t_pc[s] \in {"done", "failed"}

\* C17: a query leaves the collection as it is; once both sessions have
\* finished indexing, the collection holds what one indexing run produces;
\* a query sees entries of that collection only, possibly not all of them
C17_TwoSessionsConverge ==
    /\ [](t_pc # <<>> /\ BothFinished =>
            LET coll == t_store[CollectionName(doc)]
                single == SingleRun(doc, t_raises)
            IN /\ EntrySet(coll) = EntrySet(single)
               /\ Len(coll) = Len(single))
    /\ [](t_seen.asked =>
            \A i \in 1..Len(t_seen.hits) :
                t_seen.hits[i] \in EntrySet(SingleRun(doc, t_raises)))
    /\ [][t_queries' # t_queries => t_store' = t_store]_vars

\* a query was made while the other session was still adding chapters, and
\* both sessions have finished since
C17_Witness ==
    /\ t_pc # <<>>
    /\ BothFinished
    /\ t_seen.asked
    /\ t_seen.indexing
    /\ Len(t_store[CollectionName(doc)]) = 2

----------------------------------------------------------------------------
(* The chunker, one loop iteration per step *)

\* 400 words separated by single spaces
Para400 == [i \in 1..799 |-> IF i % 2 = 1 THEN "a" ELSE SP]

\* three 400-word paragraphs
ScenarioText == Para400 \o <<NL, NL>> \o Para400 \o <<NL, NL>> \o Para400

Texts == UNION {[1..n -> Chars] : n \in 0..MaxTextLen}

InitChunker ==
    /\ \/ text \in Texts /\ chunk_size \in 0..MaxBudget
       \/ text = ScenarioText /\ chunk_size = DefaultChunkSize
    /\ paragraphs = <<>>
    /\ chunks = <<>>
    /\ current_chunk = <<>>
    /\ current_length = 0
    /\ para_i = 0
    /\ cstate = "start"
    /\ doc = NoDoc
    /\ pc = "idle"
    /\ chapters = <<>>
    /\ chap_i = 0
    /\ collection = <<>>
    /\ adds = <<>>
    /\ warning = ""
    /\ OthersIdle

ChunkSplit ==
    /\ cstate = "start"
    /\ paragraphs' = SplitParagraphs(text)
    /\ chunks' = LoopStart.chunks
    /\ current_chunk' = LoopStart.current_chunk
    /\ current_length' = LoopStart.current_length
    /\ para_i' = 1
    /\ cstate' = "loop"
    /\ UNCHANGED <<text, chunk_size, pvars, nvars>>

ChunkLoop ==
    /\ cstate = "loop"
    /\ para_i <= Len(paragraphs)
    /\ LET st == LoopBody([chunks |-> chunks, current_chunk |-> current_chunk,
                           current_length |-> current_length],
                          paragraphs[para_i], chunk_size)
       IN /\ chunks' = st.chunks
          /\ current_chunk' = st.current_chunk
          /\ current_length' = st.current_length
    /\ para_i' = para_i + 1
    /\ UNCHANGED <<text, chunk_size, paragraphs, cstate, pvars, nvars>>

ChunkReturn ==
    /\ cstate = "loop"
    /\ para_i > Len(paragraphs)
    /\ chunks' = Flush([chunks |-> chunks, current_chunk |-> current_chunk,
                        current_length |-> current_length])
    /\ cstate' = "done"
    /\ UNCHANGED <<text, chunk_size, paragraphs, current_chunk, current_length, para_i, pvars, nvars>>

NextChunker == ChunkSplit \/ ChunkLoop \/ ChunkReturn

SpecChunker == InitChunker /\ [][NextChunker]_vars

----------------------------------------------------------------------------
(* Whitespace normalisation and paragraph structure of a chunk list *)

RECURSIVE CanonRange(_, _, _)
\* the words of s[lo..hi], each preceded by one space (' ' + ' '.join(s.split()))
CanonRange(s, lo, hi) ==
    IF lo > hi THEN <<>>
    ELSE IF lo = hi
         THEN IF IsSpace(s[lo]) THEN <<>>
              ELSE IF lo = 1 \/ IsSpace(s[lo - 1]) THEN <<SP, s[lo]>>
              ELSE <<s[lo]>>
         ELSE LET m == (lo + hi) \div 2
              IN CanonRange(s, lo, m) \o CanonRange(s, m + 1, hi)

Canon(s) == CanonRange(s, 1, Len(s))

\* the paragraphs of the blank-line join of a chunk list
ParagraphsOf(cs) == SplitParagraphs(JoinParagraphs(cs))

Finished == cstate = "done"

----------------------------------------------------------------------------
(* Claims about split_text_into_chunks, under SpecChunker *)

\* C4: every returned chunk either has a word count <= chunk_size or is
\* exactly one paragraph of the input whose own word count exceeds chunk_size.
C4_ChunkWithinBudget ==
    Finished =>
        \A k \in 1..Len(chunks) :
            \/ WordCount(chunks[k]) <= chunk_size
            \/ /\ Len(SplitParagraphs(chunks[k])) = 1
               /\ \E i \in 1..Len(paragraphs) :
                    paragraphs[i] = chunks[k] /\ WordCount(paragraphs[i]) > chunk_size

\* C4 witness: a run that returned an oversized single-paragraph chunk
\* after a chunk that fits.
C4_Witness ==
    /\ Finished
    /\ chunk_size >= 1
    /\ \E k \in 1..Len(chunks) : WordCount(chunks[k]) > chunk_size
    /\ \E k \in 1..Len(chunks) : WordCount(chunks[k]) \in 1..chunk_size

\* C5: the chunker is greedy.  In every loop iteration the paragraph joins the
\* current chunk exactly when current_length + its word count <= chunk_size
\* (equality joins); otherwise the current chunk is sealed and a new one starts
\* with the paragraph.  Budget 1000 with three 400-word paragraphs returns
\* [P1+P2, P3].
C5_Greedy ==
    /\ [][(cstate = "loop" /\ para_i <= Len(paragraphs)) =>
            LET para == paragraphs[para_i]
                fits == current_length + WordCount(para) <= chunk_size
            IN /\ fits => /\ chunks' = chunks
                          /\ current_chunk' = Append(current_chunk, para)
                          /\ current_length' = current_length + WordCount(para)
               /\ ~fits => /\ chunks' = Append(chunks, JoinParagraphs(current_chunk))
                           /\ current_chunk' = <<para>>
                           /\ current_length' = WordCount(para)]_vars
    /\ []((Finished /\ text = ScenarioText /\ chunk_size = DefaultChunkSize) =>
            chunks = <<Para400 \o <<NL, NL>> \o Para400, Para400>>)

\* C5 witness: two paragraphs with words were joined with the running count
\* exactly at the budget.
C5_Witness ==
    /\ cstate = "loop"
    /\ Len(current_chunk) = 2
    /\ WordCount(current_chunk[1]) > 0
    /\ WordCount(current_chunk[2]) > 0
    /\ current_length = chunk_size

\* C6: every chunk text returned is non-empty.
C6_ChunksNonEmpty ==
    Finished => \A k \in 1..Len(chunks) : chunks[k] # <<>>

\* C8: round trip.  The blank-line join of the returned chunks equals the input
\* text up to whitespace normalisation, and its paragraphs are the input's
\* paragraphs, whole, once each and in order (preceded by one empty paragraph
\* when the first chunk is empty).
C8_RoundTrip ==
    Finished =>
        /\ Canon(JoinParagraphs(chunks)) = Canon(text)
        /\ \/ ParagraphsOf(chunks) = paragraphs
           \/ ParagraphsOf(chunks) = <<<<>>>> \o paragraphs

\* C8 witness: a run that split a text with words in two paragraphs into
\* two chunks.
C8_Witness ==
    /\ Finished
    /\ Len(chunks) >= 2
    /\ \A k \in 1..Len(chunks) : WordCount(chunks[k]) > 0

\* C9: re-chunking the blank-line join of the returned chunks with the same
\* budget returns the same chunk sequence.
C9_Idempotent ==
    Finished => split_text_into_chunks(JoinParagraphs(chunks), chunk_size) = chunks

\* C9 witness: a run whose join differs from the input text (an empty leading
\* chunk) and that returned several chunks.
C9_Witness ==
    /\ Finished
    /\ Len(chunks) >= 2
    /\ JoinParagraphs(chunks) # text
    /\ WordCount(text) > 0

=============================================================================
